---- MODULE Spec2Model ----
(***************************************************************************)
(* Model of controller.ino, the controller firmware for the MC44BS373CA RF *)
(* modulator: the three-button user interface, the frequency stepping, the *)
(* register frame and LCD text produced by writeConfig, and the settings   *)
(* block kept in EEPROM.                                                   *)
(*                                                                         *)
(* Characters are modelled by their ASCII codes, bytes by 0..255, the      *)
(* EEPROM by its first ten cells (addresses 0..9 are indices 1..10).       *)
(***************************************************************************)
EXTENDS Integers, Sequences, FiniteSets, TLC

VARIABLES
    pc,               \* "setup": powered, setup() not yet run; "loop": in loop()
    function,         \* uint8_t function
    currentSettings,  \* settings_t currentSettings
    frequencyDivisor, \* uint8_t frequencyDivisor
    eeprom,           \* EEPROM cells 0..9
    lcd,              \* the 16 character cells of the display
    lcdCursor,        \* column of the display cursor
    wire,             \* the frame most recently transmitted to the modulator
    txCount,          \* number of frames transmitted by the last step
    last,             \* the step most recently taken: <<source, event>>
    saved,            \* settings written by the most recent currentSettings_save
    faults,           \* EEPROM cells altered since the block was written
    events            \* number of steps taken so far

vars == <<pc, function, currentSettings, frequencyDivisor, eeprom, lcd,
          lcdCursor, wire, txCount, last, saved, faults, events>>

----------------------------------------------------------------------------
(* Bounds of the model *)

MaxEvents == 7

----------------------------------------------------------------------------
(* Program constants *)

fnIdle == 0
fnChannel == 1
fnStandard == 2
fnTestPattern == 3
frequencyIncrementH == 900
frequencyIncrementM == 800
frequencyIncrementL == 700
CURRENTSETTINGS_ADDRESS == 0
EEPROM_HEADER == 20037      \* 0x4E45
SizeofHeader == 2           \* sizeof(EEPROM_HEADER), a uint16_t
SizeofSettings == 6         \* sizeof(currentSettings) on the ATmega328
ModulatorAddress == 101     \* 0xCA >> 1

standards == <<77, 66, 73, 68>>          \* 'M','B','I','D'
fnCursorPositions == <<16, 2, 14, 15>>

\* the initializer of currentSettings
DefaultSettings ==
    [testPatternEnable |-> 1, standard |-> 2, frequencyTimes100 |-> 47125]

\* value of `saved' while no block has been written
NoSettings ==
    [testPatternEnable |-> 255, standard |-> 255, frequencyTimes100 |-> 0]

----------------------------------------------------------------------------
(* Fixed-width arithmetic *)

U8(x) == x % 256
U16(x) == x % 65536
\* uint32_t values are plain integers here: every value reached stays below
\* 2^31, where unsigned 32-bit arithmetic is exact, and evaluation fails on
\* anything larger instead of wrapping silently

RECURSIVE Pow2(_)
Pow2(n) == IF n = 0 THEN 1 ELSE 2 * Pow2(n - 1)

\* (x >> lo) & (2^n - 1)
Field(x, lo, n) == (x \div Pow2(lo)) % Pow2(n)

\* #define frequencyDivisorPow (1 << frequencyDivisor)
frequencyDivisorPow(X) == Pow2(X)

----------------------------------------------------------------------------
(* Frequency stepping *)

\* variant: wraps to the base of the lowest label band instead of 4125
incrementFrequency_WrapBase(f) ==
    IF f < 102325 /\ f >= 30325 THEN f + frequencyIncrementM
    ELSE IF f < 102325 /\ f >= 29425 THEN f + frequencyIncrementH
    ELSE IF f < 102325 /\ f >= 10525 THEN f + frequencyIncrementL
    ELSE IF f < 102325 /\ f >= 9725 THEN f + frequencyIncrementM
    ELSE IF f < 102325 THEN f + frequencyIncrementL
    ELSE 4025

\* variant: the 9725..10525 sub-range steps by 700 like its neighbours
incrementFrequency_NoMidStep(f) ==
    IF f < 102325 /\ f >= 30325 THEN f + frequencyIncrementM
    ELSE IF f < 102325 /\ f >= 29425 THEN f + frequencyIncrementH
    ELSE IF f < 102325 THEN f + frequencyIncrementL
    ELSE 4125

incrementFrequency(f) ==
    IF f < 102325 /\ f >= 30325 THEN f + frequencyIncrementM
    ELSE IF f < 102325 /\ f >= 29425 THEN f + frequencyIncrementH
    ELSE IF f < 102325 /\ f >= 10525 THEN f + frequencyIncrementL
    ELSE IF f < 102325 /\ f >= 9725 THEN f + frequencyIncrementM
    ELSE IF f < 102325 THEN f + frequencyIncrementL
    ELSE 4125

\* variant: the sub-range tests written with >= as in incrementFrequency
decrementFrequency_Ge(f) ==
    IF f >= 30325 THEN f - frequencyIncrementM
    ELSE IF f >= 29425 THEN f - frequencyIncrementH
    ELSE IF f >= 10525 THEN f - frequencyIncrementL
    ELSE IF f >= 9725 THEN f - frequencyIncrementM
    ELSE IF f > 4125 THEN f - frequencyIncrementL
    ELSE 102325

\* variant: the bottom test lets 4125 step down once more before wrapping
decrementFrequency_LateWrap(f) ==
    IF f > 30325 THEN f - frequencyIncrementM
    ELSE IF f > 29425 THEN f - frequencyIncrementH
    ELSE IF f > 10525 THEN f - frequencyIncrementL
    ELSE IF f > 9725 THEN f - frequencyIncrementM
    ELSE IF f >= 4125 THEN f - frequencyIncrementL
    ELSE 102325

decrementFrequency(f) ==
    IF f > 30325 THEN f - frequencyIncrementM
    ELSE IF f > 29425 THEN f - frequencyIncrementH
    ELSE IF f > 10525 THEN f - frequencyIncrementL
    ELSE IF f > 9725 THEN f - frequencyIncrementM
    ELSE IF f > 4125 THEN f - frequencyIncrementL
    ELSE 102325

\* variant: the bottom band tested with > instead of >=
setFrequencyDivider_Gt(f) ==
    IF f > 42325 THEN 0
    ELSE IF f > 21025 THEN 1
    ELSE IF f > 10525 THEN 2
    ELSE IF f > 4125 THEN 3
    ELSE 4

\* variant: the exponents assigned in the opposite order
setFrequencyDivider_Reversed(f) ==
    IF f > 42325 THEN 3
    ELSE IF f > 21025 THEN 2
    ELSE IF f > 10525 THEN 1
    ELSE 0

\* variant: every band given the next higher exponent
setFrequencyDivider_OneHigher(f) ==
    IF f > 42325 THEN 1
    ELSE IF f > 21025 THEN 2
    ELSE IF f > 10525 THEN 3
    ELSE 4

setFrequencyDivider(f) ==
    IF f > 42325 THEN 0
    ELSE IF f > 21025 THEN 1
    ELSE IF f > 10525 THEN 2
    ELSE IF f >= 4125 THEN 3
    ELSE 4

----------------------------------------------------------------------------
(* writeConfig: register bytes and display text *)

\* uint16_t frequencyBits = (uint32_t(frequencyDivisorPow) * frequencyTimes100) / uint32_t(25)
frequencyBits(fd, f) == U16((frequencyDivisorPow(fd) * f) \div 25)

channelDig3(f) ==
    IF f >= 47125 THEN 67
    ELSE IF f < 47125 /\ f >= 30325 THEN 83
    ELSE IF f < 47125 /\ f >= 23125 THEN 83
    ELSE IF f < 23125 /\ f >= 17525 THEN 67
    ELSE IF f < 17525 /\ f >= 10525 THEN 83
    ELSE IF f < 6925 /\ f >= 4025 THEN 67
    ELSE 45

channelNumber(f) ==
    IF f >= 47125 THEN U8((f - 47125) \div 800 + 21)
    ELSE IF f < 47125 /\ f >= 30325 THEN U8((f - 30325) \div 800 + 21)
    ELSE IF f < 47125 /\ f >= 23125 THEN U8((f - 23125) \div 700 + 11)
    ELSE IF f < 23125 /\ f >= 17525 THEN U8((f - 17525) \div 700 + 5)
    ELSE IF f < 17525 /\ f >= 10525 THEN U8((f - 10525) \div 700 + 1)
    ELSE IF f < 6925 /\ f >= 4025 THEN U8((f - 4025) \div 700 + 1)
    ELSE 0

channelDig2(f) == IF channelNumber(f) # 0 THEN (channelNumber(f) \div 10) + 48 ELSE 45
channelDig1(f) == IF channelNumber(f) # 0 THEN (channelNumber(f) % 10) + 48 ELSE 45

\* the sixteen characters written to the LCD, in order
LcdText(fd, SFD, TPEN, f) ==
    LET dig6 == U8(f \div 100000)
        dig5 == U8((f \div 10000) % 10)
    IN  << channelDig3(f), channelDig2(f), channelDig1(f), 32,
           IF dig6 # 0 THEN dig6 + 48 ELSE 32,
           IF dig6 # 0 \/ dig5 # 0 THEN dig5 + 48 ELSE 32,
           U8(((f \div 1000) % 10) + 48),
           U8(((f \div 100) % 10) + 48),
           46,
           U8(((f \div 10) % 10) + 48),
           U8((f % 10) + 48),
           32,
           U8(frequencyDivisorPow(fd) + 48),
           32,
           standards[SFD + 1],
           IF TPEN # 0 THEN 84 ELSE 32 >>

ByteC1(SO, LOP, PS, X, SYSL) ==
    U8(128 + (SO % 2) * 32 + (LOP % 2) * 16 + (PS % 2) * 8
           + Field(X, 2, 2) * 2 + (SYSL % 2))

ByteC0(PWC, OSC, ATT, SFD, SREF, X) ==
    U8((PWC % 2) * 128 + (OSC % 2) * 64 + (ATT % 2) * 32
           + (SFD % 4) * 8 + (SREF % 2) * 4 + Field(X, 4, 2))

ByteFM(TPEN, fb) == U8((TPEN % 2) * 64 + Field(fb, 6, 6))

\* variant: the frequency bits shifted by one place instead of two
ByteFL_ShiftOne(fb, X) == U8((fb % 64) * 2 + (X % 4))

ByteFL(fb, X) == U8((fb % 64) * 4 + (X % 4))

\* the bytes handed to writeConfigRaw by the twelve-parameter writeConfig;
\* frequencyDivisorPow reads the global frequencyDivisor (fd), not X
ConfigBytes(fd, SO, LOP, PS, X, SYSL, PWC, OSC, ATT, SFD, SREF, TPEN, f) ==
    << ByteC1(SO, LOP, PS, X, SYSL),
       ByteC0(PWC, OSC, ATT, SFD, SREF, X),
       ByteFM(TPEN, frequencyBits(fd, f)),
       ByteFL(frequencyBits(fd, f), X) >>

\* Wire.beginTransmission .. Wire.endTransmission: the four bytes in order
writeConfigRaw(C1, C0, FM, FL) == <<C1, C0, FM, FL>>

\* void writeConfig(): the frame sent for the given globals
ConfigFrame(fd, s) ==
    LET b == ConfigBytes(fd, 0, 0, 0, fd, 0, 0, 0, 0, s.standard, 0,
                         s.testPatternEnable, s.frequencyTimes100)
    IN  writeConfigRaw(b[1], b[2], b[3], b[4])

\* void writeConfig() run with the post-state globals fn, fd, s
writeConfig(fn, fd, s) ==
    /\ lcd' = LcdText(fd, s.standard, s.testPatternEnable, s.frequencyTimes100)
    /\ lcdCursor' = fnCursorPositions[fn + 1]
    /\ wire' = ConfigFrame(fd, s)
    /\ txCount' = 1

----------------------------------------------------------------------------
(* The settings block in EEPROM *)

\* variant: frequencyTimes100 declared uint16_t, upper bytes never stored
SettingsBytes_Freq16(s) ==
    << U8(s.testPatternEnable), U8(s.standard),
       Field(s.frequencyTimes100, 0, 8), Field(s.frequencyTimes100, 8, 8), 0, 0 >>

\* byte image of a settings_t (little-endian, no padding on the ATmega328)
SettingsBytes(s) ==
    << U8(s.testPatternEnable), U8(s.standard),
       Field(s.frequencyTimes100, 0, 8), Field(s.frequencyTimes100, 8, 8),
       Field(s.frequencyTimes100, 16, 8), Field(s.frequencyTimes100, 24, 8) >>

\* the settings_t whose byte image is b
SettingsOfBytes(b) ==
    [testPatternEnable |-> b[1], standard |-> b[2],
     frequencyTimes100 |-> b[3] + 256 * b[4] + 65536 * b[5] + 16777216 * b[6]]

\* eeprom_write_word / eeprom_read_word: little-endian 16-bit words
WordBytes(w) == << w % 256, (w \div 256) % 256 >>
WordOfBytes(lo, hi) == lo + 256 * hi

\* checksum += p[i] for i < sizeof(currentSettings), in a uint16_t
RECURSIVE SumBytes(_, _)
SumBytes(b, n) == IF n = 0 THEN 0 ELSE U16(SumBytes(b, n - 1) + b[n])

\* variant: the checksum loop stops one byte short
Checksum_OneShort(b) == SumBytes(b, SizeofSettings - 1)

Checksum(b) == SumBytes(b, SizeofSettings)

\* the ten EEPROM cells after currentSettings_save()
currentSettings_save(s) ==
    WordBytes(EEPROM_HEADER) \o SettingsBytes(s) \o WordBytes(Checksum(SettingsBytes(s)))

\* variant: header and checksum joined by || instead of &&
LoadAccepts_Either(e) ==
    LET eepromHeaderTemp == WordOfBytes(e[1], e[2])
        tmpBytes == SubSeq(e, SizeofHeader + 1, SizeofHeader + SizeofSettings)
        checksum == WordOfBytes(e[SizeofHeader + SizeofSettings + 1],
                                e[SizeofHeader + SizeofSettings + 2])
        checksumCalc == Checksum(tmpBytes)
    IN  checksum = checksumCalc \/ eepromHeaderTemp = EEPROM_HEADER

\* the comparison at the end of currentSettings_load()
LoadAccepts(e) ==
    LET eepromHeaderTemp == WordOfBytes(e[1], e[2])
        tmpBytes == SubSeq(e, SizeofHeader + 1, SizeofHeader + SizeofSettings)
        checksum == WordOfBytes(e[SizeofHeader + SizeofSettings + 1],
                                e[SizeofHeader + SizeofSettings + 2])
        checksumCalc == Checksum(tmpBytes)
    IN  checksum = checksumCalc /\ eepromHeaderTemp = EEPROM_HEADER

\* currentSettings after currentSettings_load() run with live settings s.
\* The function ends without a return statement; its value is unspecified and
\* setup() discards it.
currentSettings_load(e, s) ==
    IF LoadAccepts(e)
    THEN SettingsOfBytes(SubSeq(e, SizeofHeader + 1, SizeofHeader + SizeofSettings))
    ELSE s

----------------------------------------------------------------------------
(* Environment: EEPROM contents at first power-on, and EEPROM faults *)

\* an erased EEPROM reads 0xFF in every cell
ErasedBlock == [i \in 1..10 |-> 255]

\* settings an earlier run of the firmware may have left in the EEPROM
EarlierSaved ==
    { [testPatternEnable |-> 0, standard |-> 1, frequencyTimes100 |-> 21025],
      [testPatternEnable |-> 1, standard |-> 3, frequencyTimes100 |-> 102325],
      [testPatternEnable |-> 0, standard |-> 0, frequencyTimes100 |-> 4125],
      [testPatternEnable |-> 1, standard |-> 2, frequencyTimes100 |-> 42325] }

\* values a faulty cell may take in the Fault step
FaultValues == {0, 85}

\* AceButton events delivered to the handlers
FEvents == {"Pressed", "Released", "LongPressed"}
UDEvents == {"Pressed", "RepeatPressed", "Released"}
UDPins == {"buttonUPin", "buttonDPin"}

----------------------------------------------------------------------------
(* Initial state: power applied, globals at their initializers *)

Init ==
    /\ pc = "setup"
    /\ function = fnIdle
    /\ currentSettings = DefaultSettings
    /\ frequencyDivisor = 0
    /\ \/ eeprom = ErasedBlock /\ saved = NoSettings
       \/ \E s \in EarlierSaved :
              eeprom = currentSettings_save(s) /\ saved = s
    /\ lcd = [i \in 1..16 |-> 32]
    /\ lcdCursor = 0
    /\ wire = <<>>
    /\ txCount = 0
    /\ last = <<"power", "on">>
    /\ faults = 0
    /\ events = 0

----------------------------------------------------------------------------
(* setup() *)

\* variant: the button is not consulted, the block is always loaded
SetupSettings_AlwaysLoad(held, e, s) == currentSettings_load(e, s)

\* the settings in force when setup() reaches writeConfig(); held is
\* !digitalRead(buttonFPin)
SetupSettings(held, e, s) ==
    IF held THEN s ELSE currentSettings_load(e, s)

\* variant: a failed load writes the defaults back to the EEPROM
setup_WritesDefaults(held) ==
    /\ pc = "setup"
    /\ pc' = "loop"
    /\ currentSettings' = SetupSettings(held, eeprom, currentSettings)
    /\ eeprom' = IF held \/ LoadAccepts(eeprom)
                 THEN eeprom
                 ELSE currentSettings_save(currentSettings')
    /\ writeConfig(function, frequencyDivisor, currentSettings')
    /\ last' = <<"setup", IF held THEN "skip" ELSE "load">>
    /\ UNCHANGED <<function, frequencyDivisor, saved, faults>>

setup(held) ==
    /\ pc = "setup"
    /\ pc' = "loop"
    /\ currentSettings' = SetupSettings(held, eeprom, currentSettings)
    /\ writeConfig(function, frequencyDivisor, currentSettings')
    /\ last' = <<"setup", IF held THEN "skip" ELSE "load">>
    /\ UNCHANGED <<function, frequencyDivisor, eeprom, saved, faults>>

----------------------------------------------------------------------------
(* handleFEvent *)

\* variant: a release in fnTestPattern leaves the editing cycle
ReleasedFunction_ToIdle(fn) ==
    IF fn = fnChannel THEN fnStandard
    ELSE IF fn = fnStandard THEN fnTestPattern
    ELSE IF fn = fnTestPattern THEN fnIdle
    ELSE fnChannel

\* case AceButton::kEventReleased
ReleasedFunction(fn) ==
    IF fn = fnChannel THEN fnStandard
    ELSE IF fn = fnStandard THEN fnTestPattern
    ELSE fnChannel

\* case AceButton::kEventLongPressed
LongPressedFunction(fn) == IF fn = fnIdle THEN fnChannel ELSE fnIdle

\* variant: every long-press saves
LongPressedSaves_Always(fn) == TRUE

\* variant: only a long-press in fnChannel saves
LongPressedSaves_ChannelOnly(fn) == fn = fnChannel

\* the branch of kEventLongPressed that calls currentSettings_save()
LongPressedSaves(fn) == ~(fn = fnIdle)

handleFEvent(eventType) ==
    /\ pc = "loop"
    /\ last' = <<"F", eventType>>
    /\ CASE eventType = "Released" ->
              /\ function' = ReleasedFunction(function)
              /\ lcdCursor' = fnCursorPositions[function' + 1]
              /\ txCount' = 0
              /\ UNCHANGED <<currentSettings, frequencyDivisor, eeprom, lcd,
                             wire, saved, faults>>
         [] eventType = "LongPressed" ->
              /\ function' = LongPressedFunction(function)
              /\ IF LongPressedSaves(function)
                 THEN /\ eeprom' = currentSettings_save(currentSettings)
                      /\ saved' = currentSettings
                      /\ faults' = 0
                      /\ writeConfig(function', frequencyDivisor, currentSettings)
                 ELSE /\ lcdCursor' = fnCursorPositions[function' + 1]
                      /\ txCount' = 0
                      /\ UNCHANGED <<eeprom, saved, faults, lcd, wire>>
              /\ UNCHANGED <<currentSettings, frequencyDivisor>>
         [] OTHER ->
              /\ txCount' = 0
              /\ UNCHANGED <<function, currentSettings, frequencyDivisor,
                             eeprom, lcd, lcdCursor, wire, saved, faults>>
    /\ UNCHANGED pc

----------------------------------------------------------------------------
(* handleUDEvent *)

\* variant: the buttonDPin case copied from buttonUPin with + 1 left in
UDSettings_DownIncrements(pin, fn, s) ==
    IF fn = fnChannel
    THEN [s EXCEPT !.frequencyTimes100 =
                       IF pin = "buttonUPin" THEN incrementFrequency(@)
                                             ELSE decrementFrequency(@)]
    ELSE IF fn = fnStandard
    THEN [s EXCEPT !.standard = U8(@ + 1) % 4]
    ELSE IF fn = fnTestPattern
    THEN [s EXCEPT !.testPatternEnable = IF @ % 2 = 1 THEN @ - 1 ELSE @ + 1]
    ELSE s

\* variant: Down switches the test pattern off instead of toggling it
UDSettings_DownClears(pin, fn, s) ==
    IF fn = fnChannel
    THEN [s EXCEPT !.frequencyTimes100 =
                       IF pin = "buttonUPin" THEN incrementFrequency(@)
                                             ELSE decrementFrequency(@)]
    ELSE IF fn = fnStandard
    THEN [s EXCEPT !.standard =
                       IF pin = "buttonUPin" THEN U8(@ + 1) % 4
                                             ELSE (@ + 65535) % 4]
    ELSE IF fn = fnTestPattern
    THEN [s EXCEPT !.testPatternEnable =
                       IF pin = "buttonUPin"
                       THEN (IF @ % 2 = 1 THEN @ - 1 ELSE @ + 1)
                       ELSE 0]
    ELSE s

\* currentSettings after the branch taken for the pin in the given function
UDSettings(pin, fn, s) ==
    IF pin = "buttonUPin"
    THEN IF fn = fnChannel
         THEN [s EXCEPT !.frequencyTimes100 = incrementFrequency(@)]
         ELSE IF fn = fnStandard
         THEN [s EXCEPT !.standard = U8(@ + 1) % 4]
         ELSE IF fn = fnTestPattern
         THEN [s EXCEPT !.testPatternEnable =
                            IF @ % 2 = 1 THEN @ - 1 ELSE @ + 1]
         ELSE s
    ELSE IF fn = fnChannel
         THEN [s EXCEPT !.frequencyTimes100 = decrementFrequency(@)]
         ELSE IF fn = fnStandard
         THEN [s EXCEPT !.standard = (@ + 65535) % 4]
         ELSE IF fn = fnTestPattern
         THEN [s EXCEPT !.testPatternEnable =
                            IF @ % 2 = 1 THEN @ - 1 ELSE @ + 1]
         ELSE s

\* variant: writeConfig() called after the if-chain, in every function
UDWrites_Always(fn) == TRUE

\* variant: the fnStandard branch lacks its writeConfig()
UDWrites_NotStandard(fn) == fn = fnChannel \/ fn = fnTestPattern

\* the branches of handleUDEvent that end in writeConfig()
UDWrites(fn) == fn = fnChannel \/ fn = fnStandard \/ fn = fnTestPattern

\* frequencyDivisor after the event: only incrementFrequency and
\* decrementFrequency call setFrequencyDivider
UDDivisor(fn, fd, f) == IF fn = fnChannel THEN setFrequencyDivider(f) ELSE fd

handleUDEvent(pin, eventType) ==
    /\ pc = "loop"
    /\ last' = <<pin, eventType>>
    /\ IF eventType \in {"Pressed", "RepeatPressed"}
       THEN /\ currentSettings' = UDSettings(pin, function, currentSettings)
            /\ frequencyDivisor' = UDDivisor(function, frequencyDivisor,
                                             currentSettings'.frequencyTimes100)
            /\ IF UDWrites(function)
               THEN writeConfig(function, frequencyDivisor', currentSettings')
               ELSE /\ txCount' = 0
                    /\ UNCHANGED <<lcd, lcdCursor, wire>>
       ELSE /\ txCount' = 0
            /\ UNCHANGED <<currentSettings, frequencyDivisor, lcd, lcdCursor, wire>>
    /\ UNCHANGED <<pc, function, eeprom, saved, faults>>

----------------------------------------------------------------------------
(* Power cycle and EEPROM fault *)

\* power removed and applied again: RAM returns to the initializers, the
\* EEPROM keeps its contents
Reset ==
    /\ pc = "loop"
    /\ pc' = "setup"
    /\ function' = fnIdle
    /\ currentSettings' = DefaultSettings
    /\ frequencyDivisor' = 0
    /\ lcd' = [i \in 1..16 |-> 32]
    /\ lcdCursor' = 0
    /\ wire' = <<>>
    /\ txCount' = 0
    /\ last' = <<"power", "on">>
    /\ UNCHANGED <<eeprom, saved, faults>>

\* one cell of the stored block changes to a different value
Fault(i, v) ==
    /\ faults = 0
    /\ v # eeprom[i]
    /\ eeprom' = [eeprom EXCEPT ![i] = v]
    /\ faults' = 1
    /\ txCount' = 0
    /\ last' = <<"eeprom", "fault">>
    /\ UNCHANGED <<pc, function, currentSettings, frequencyDivisor, lcd,
                   lcdCursor, wire, saved>>

----------------------------------------------------------------------------
(* loop(): events are dispatched one at a time *)

Budget == events < MaxEvents /\ events' = events + 1

Next ==
    \/ Budget /\ \E held \in BOOLEAN : setup(held)
    \/ Budget /\ \E e \in FEvents : handleFEvent(e)
    \/ Budget /\ \E p \in UDPins, e \in UDEvents : handleUDEvent(p, e)
    \/ Budget /\ Reset
    \/ Budget /\ \E i \in 1..10, v \in FaultValues : Fault(i, v)

Spec == Init /\ [][Next]_vars

----------------------------------------------------------------------------
(* Editing session: the state after setup() on an erased EEPROM and a      *)
(* long-press into fnChannel, then any releases and Up/Down presses.  No   *)
(* save, power cycle or fault happens, so every channel frequency that     *)
(* stepping from the default can produce is reached.                       *)

PressEvents == {"Pressed", "RepeatPressed"}

InitEdit ==
    /\ pc = "loop"
    /\ function = fnChannel
    /\ currentSettings = DefaultSettings
    /\ frequencyDivisor = 0
    /\ eeprom = ErasedBlock
    /\ lcd = LcdText(0, DefaultSettings.standard,
                     DefaultSettings.testPatternEnable,
                     DefaultSettings.frequencyTimes100)
    /\ lcdCursor = fnCursorPositions[fnChannel + 1]
    /\ wire = ConfigFrame(0, DefaultSettings)
    /\ txCount = 0
    /\ last = <<"F", "LongPressed">>
    /\ saved = NoSettings
    /\ faults = 0
    /\ events = 2

NextEdit ==
    \/ UNCHANGED events /\ handleFEvent("Released")
    \/ UNCHANGED events /\ \E p \in UDPins, e \in PressEvents : handleUDEvent(p, e)

SpecEdit == InitEdit /\ [][NextEdit]_vars

\* the editing session starts in a state of the full system
InitEditReached ==
    /\ pc = "loop"
    /\ function = fnChannel
    /\ currentSettings = DefaultSettings
    /\ frequencyDivisor = 0
    /\ eeprom = ErasedBlock
    /\ lcd = LcdText(0, 2, 1, 47125)
    /\ lcdCursor = 2
    /\ wire = ConfigFrame(0, DefaultSettings)
    /\ txCount = 0
    /\ last = <<"F", "LongPressed">>
    /\ saved = NoSettings
    /\ faults = 0
    /\ events = 2

----------------------------------------------------------------------------
(* Register frame of section 4.2 of the specification, reserved bits 0 *)

RegisterFrequencyBits(exponent, frequencyValue) ==
    (Pow2(exponent) * frequencyValue) \div 25

FrameOfSpec(testPatternEnable, standard, exponent, frequencyValue) ==
    LET rfb == RegisterFrequencyBits(exponent, frequencyValue)
    IN  << 128 + 2 * ((exponent \div 4) % 4),
           8 * (standard % 4) + ((exponent \div 16) % 4),
           64 * testPatternEnable + ((rfb \div 64) % 64),
           4 * (rfb % 64) + (exponent % 4) >>

GoldenFrame == <<128, 16, 93, 116>>    \* 0x80, 0x10, 0x5D, 0x74

\* C1: every frame handed to the bus is the four bytes C1,C0,FM,FL of the
\* section 4.2 formulas applied to the current testPatternEnable, standard,
\* divisor exponent and floor(2^exponent * frequencyValue / 25); startup
\* writes a frame; for standard 2, test pattern on, exponent 0 and 47125 the
\* frame is 0x80 0x10 0x5D 0x74.
C1_FrameBitExact ==
    /\ last[1] = "setup" => txCount = 1
    /\ txCount = 1 =>
          /\ Len(wire) = 4
          /\ wire = FrameOfSpec(currentSettings.testPatternEnable,
                                currentSettings.standard, frequencyDivisor,
                                currentSettings.frequencyTimes100)
    /\ ( /\ txCount = 1
         /\ currentSettings = DefaultSettings
         /\ frequencyDivisor = 0 ) => wire = GoldenFrame

\* an Up/Down mutation has just written the golden frame
C1_Witness ==
    /\ last[1] \in UDPins
    /\ txCount = 1
    /\ currentSettings = DefaultSettings
    /\ wire = GoldenFrame

----------------------------------------------------------------------------
(* Divisor-band table of section 4.1 of the specification *)

BandExponent(frequencyValue) ==
    CASE frequencyValue > 42325 -> 0
      [] frequencyValue <= 42325 /\ frequencyValue > 21025 -> 1
      [] frequencyValue <= 21025 /\ frequencyValue > 10525 -> 2
      [] frequencyValue <= 10525 /\ frequencyValue >= 4125 -> 3
      [] OTHER -> 4

\* C2: at every render/register write the divisor exponent used for the
\* register frequency bits, for the FL divisor bits and for the displayed
\* divisor digit is the divisor-band table value of the frequency written,
\* the first write after loading saved settings included.
C2_DivisorFollowsTable ==
    txCount = 1 =>
        LET x == BandExponent(currentSettings.frequencyTimes100)
        IN  /\ frequencyDivisor = x
            /\ wire[4] % 4 = x % 4
            /\ lcd[13] = 48 + Pow2(x)

----------------------------------------------------------------------------
(* Persisted block layout of section 6 of the specification *)

StoredMagic(block) == block[1] + 256 * block[2]
StoredSettingsBytes(block) == [i \in 1..6 |-> block[i + 2]]
StoredChecksum(block) == block[9] + 256 * block[10]
ByteSum16(b) == (b[1] + b[2] + b[3] + b[4] + b[5] + b[6]) % 65536
StoredSettings(block) ==
    [testPatternEnable |-> block[3], standard |-> block[4],
     frequencyTimes100 |-> block[5] + 256 * block[6] + 65536 * block[7]
                               + 16777216 * block[8]]
BlockValid(block) ==
    /\ StoredMagic(block) = 20037
    /\ StoredChecksum(block) = ByteSum16(StoredSettingsBytes(block))

\* the step just taken was the save of a long-press leaving an editing mode
JustSaved == last = <<"F", "LongPressed">> /\ txCount = 1

\* C3: after a long-press exit from editing has saved the live settings, a
\* power cycle without the mode button held ends startup with live
\* testPatternEnable, standard and frequencyValue equal to the saved ones.
C3_SaveLoadIdentity ==
    ( /\ last = <<"setup", "load">>
      /\ saved # NoSettings
      /\ faults = 0 ) => currentSettings = saved

\* startup has loaded settings that were edited and saved since the first
\* power-on and that need the third frequency byte
C3_Witness ==
    /\ last = <<"setup", "load">>
    /\ faults = 0
    /\ saved \notin EarlierSaved \cup {NoSettings}
    /\ saved.frequencyTimes100 > 65535
    /\ currentSettings = saved

\* C4: changing any single byte of a block produced by save to a different
\* value makes load reject the block, so startup leaves the live settings at
\* the defaults instead of taking the block's contents.
C4_SingleByteCorruptionRejected ==
    /\ ( faults = 0 /\ (JustSaved \/ (events = 0 /\ saved # NoSettings)) ) =>
          \A i \in 1..10 : \A v \in 0..255 :
              v # eeprom[i] => ~LoadAccepts([eeprom EXCEPT ![i] = v])
    /\ ( /\ last = <<"setup", "load">>
         /\ saved # NoSettings
         /\ faults = 1 ) => currentSettings = DefaultSettings

\* startup has read a saved block with one changed byte
C4_Witness ==
    /\ last = <<"setup", "load">>
    /\ saved # NoSettings
    /\ saved # DefaultSettings
    /\ faults = 1
    /\ currentSettings = DefaultSettings

\* C5: load replaces the live settings with the stored settings exactly when
\* the stored magic is 0x4E45 and the stored checksum is the 16-bit sum of
\* the stored settings bytes; otherwise the live settings stay at the
\* built-in defaults.
C5_LoadIffMagicAndChecksum ==
    last = <<"setup", "load">> =>
        IF BlockValid(eeprom)
        THEN currentSettings = StoredSettings(eeprom)
        ELSE currentSettings = [testPatternEnable |-> 1, standard |-> 2,
                                frequencyTimes100 |-> 47125]

\* startup has replaced the defaults by a valid stored block
C5_Witness ==
    /\ last = <<"setup", "load">>
    /\ BlockValid(eeprom)
    /\ currentSettings # DefaultSettings

\* C6: with the mode button held at power-on the load is skipped: the live
\* settings after startup are the defaults, also when the stored block is
\* valid and differs, and startup leaves the stored block unmodified.
C6_HeldSkipsLoad ==
    [][ (pc = "setup" /\ last' = <<"setup", "skip">>) =>
            /\ currentSettings' = DefaultSettings
            /\ eeprom' = eeprom ]_vars

\* startup with the button held over a valid block holding other settings
C6_Witness ==
    /\ last = <<"setup", "skip">>
    /\ BlockValid(eeprom)
    /\ StoredSettings(eeprom) # DefaultSettings
    /\ currentSettings = DefaultSettings

\* C7: a long-press in Idle moves to EditingChannel and does not save; a
\* long-press in any editing state moves to Idle and saves the current live
\* settings to the persisted block.
C7_LongPress ==
    [][ (pc = "loop" /\ last' = <<"F", "LongPressed">>) =>
            IF function = fnIdle
            THEN function' = fnChannel /\ eeprom' = eeprom
            ELSE /\ function' = fnIdle
                 /\ currentSettings' = currentSettings
                 /\ BlockValid(eeprom')
                 /\ StoredSettings(eeprom') = currentSettings ]_vars

\* a long-press has left an editing mode and saved edited settings
C7_Witness ==
    /\ JustSaved
    /\ function = fnIdle
    /\ currentSettings # DefaultSettings
    /\ StoredSettings(eeprom) = currentSettings

\* the steps the claim names as leaving the persisted block alone
C8_NonSavingStep ==
    \/ last'[1] = "setup"
    \/ last'[1] = "power"
    \/ last' = <<"F", "Released">>
    \/ (last' = <<"F", "LongPressed">> /\ function = fnIdle)
    \/ last'[1] \in UDPins

\* C8: the persisted block is written only by the save of a long-press that
\* leaves an editing state: startup, mode-button release, long-press from
\* Idle and every Up/Down event leave it unchanged.
C8_OnlySaveWritesBlock ==
    [][ C8_NonSavingStep => eeprom' = eeprom ]_vars

\* an Up/Down edit is live while the block still holds the older settings
C8_Witness ==
    /\ last[1] \in UDPins
    /\ txCount = 1
    /\ BlockValid(eeprom)
    /\ StoredSettings(eeprom) # currentSettings

\* C9: from Idle a released event of the mode button is a no-op: UIMode
\* remains Idle.
C9_ReleasedInIdleNoOp ==
    [][ (pc = "loop" /\ function = fnIdle /\ last' = <<"F", "Released">>) =>
            function' = fnIdle ]_vars

\* C10: while editing, a released event of the mode button advances
\* EditingChannel -> EditingStandard -> EditingTestPattern -> EditingChannel,
\* never to Idle, changes no settings field, writes no frame and does not save.
C10_ReleaseCyclesEditing ==
    [][ (pc = "loop" /\ function # fnIdle /\ last' = <<"F", "Released">>) =>
            /\ function' = CASE function = fnChannel -> fnStandard
                             [] function = fnStandard -> fnTestPattern
                             [] function = fnTestPattern -> fnChannel
            /\ function' # fnIdle
            /\ currentSettings' = currentSettings
            /\ txCount' = 0
            /\ wire' = wire
            /\ eeprom' = eeprom ]_vars

\* a release has advanced the editing cycle from EditingStandard
C10_Witness ==
    /\ last = <<"F", "Released">>
    /\ function = fnTestPattern
    /\ txCount = 0

----------------------------------------------------------------------------
(* Up/Down events *)

\* the step being taken is a pressed or repeat-pressed Up or Down event
UDPressStep == pc = "loop" /\ last'[1] \in UDPins /\ last'[2] \in PressEvents

\* C11: in Idle, Up and Down events (pressed or repeat-pressed) are ignored:
\* testPatternEnable, standard, frequencyValue, the divisor exponent and
\* UIMode are unchanged and no register frame is written.
C11_IdleIgnoresUpDown ==
    [][ (UDPressStep /\ function = fnIdle) =>
            /\ currentSettings' = currentSettings
            /\ frequencyDivisor' = frequencyDivisor
            /\ function' = fnIdle
            /\ txCount' = 0
            /\ wire' = wire
            /\ lcd' = lcd ]_vars

\* an Up or Down press has been handled in Idle
C11_Witness ==
    /\ last[1] \in UDPins
    /\ last[2] \in PressEvents
    /\ function = fnIdle
    /\ txCount = 0
    /\ Len(wire) = 4

\* the settings a register frame carries: test-pattern bit, standard bits and
\* the frequency 25 * bits / 2^divisor that the modulator derives from it
FrameSettings(frame) ==
    LET rfb == 64 * (frame[3] % 64) + (frame[4] \div 4)
        x == (frame[4] % 4) + 2 * ((frame[1] \div 2) % 4)
                            + 16 * (frame[2] % 4)
    IN  [testPatternEnable |-> (frame[3] \div 64) % 2,
         standard |-> (frame[2] \div 8) % 4,
         frequencyTimes100 |-> (25 * rfb) \div Pow2(x)]

\* C12: every Up/Down event handled in an editing mode writes exactly one
\* frame encoding the post-mutation settings, and whenever no event is being
\* handled the most recently written frame encodes the live settings.
C12_ImmediateCommit ==
    /\ [][ (UDPressStep /\ function # fnIdle) =>
               /\ txCount' = 1
               /\ FrameSettings(wire') = currentSettings' ]_vars
    /\ [](pc = "loop" => /\ Len(wire) = 4
                         /\ FrameSettings(wire) = currentSettings)

\* an edit of the standard is live and on the bus but not yet saved
C12_Witness ==
    /\ last[1] \in UDPins
    /\ function = fnStandard
    /\ txCount = 1
    /\ currentSettings.standard # DefaultSettings.standard
    /\ currentSettings # saved
    /\ FrameSettings(wire) = currentSettings

\* four presses of the same button in the same function, applied to s
FourPresses(pin, fn, s) ==
    UDSettings(pin, fn, UDSettings(pin, fn, UDSettings(pin, fn,
        UDSettings(pin, fn, s))))

\* C13: in EditingStandard, Up sets standard to (standard+1) mod 4 and Down
\* to (standard-1) mod 4, leaving testPatternEnable and frequencyValue
\* unchanged; standard is in [0,3] in every reachable state; four Ups or four
\* Downs in a row return standard to its starting value.
C13_StandardMod4 ==
    /\ [][ (UDPressStep /\ function = fnStandard) =>
               /\ currentSettings'.standard =
                      IF last'[1] = "buttonUPin"
                      THEN (currentSettings.standard + 1) % 4
                      ELSE (currentSettings.standard - 1) % 4
               /\ currentSettings'.testPatternEnable =
                      currentSettings.testPatternEnable
               /\ currentSettings'.frequencyTimes100 =
                      currentSettings.frequencyTimes100 ]_vars
    /\ [](currentSettings.standard \in 0..3)
    /\ [](\A pin \in UDPins :
              FourPresses(pin, fnStandard, currentSettings) = currentSettings)

\* a Down press in EditingStandard has wrapped the standard from 0 to 3
C13_Witness ==
    /\ last[1] = "buttonDPin"
    /\ last[2] \in PressEvents
    /\ function = fnStandard
    /\ currentSettings.standard = 3
    /\ wire[2] = 24

\* C14: in EditingTestPattern an Up event and a Down event have the same
\* effect: each toggles testPatternEnable between 0 and 1 and leaves standard
\* and frequencyValue unchanged, so two such events in a row restore the flag.
C14_TestPatternToggle ==
    /\ [][ (UDPressStep /\ function = fnTestPattern) =>
               /\ currentSettings.testPatternEnable \in {0, 1}
               /\ currentSettings'.testPatternEnable =
                      1 - currentSettings.testPatternEnable
               /\ currentSettings'.standard = currentSettings.standard
               /\ currentSettings'.frequencyTimes100 =
                      currentSettings.frequencyTimes100 ]_vars
    /\ [](\A p1 \in UDPins : \A p2 \in UDPins :
              UDSettings(p2, fnTestPattern,
                         UDSettings(p1, fnTestPattern, currentSettings))
                  = currentSettings)

\* a Down press in EditingTestPattern has switched the test pattern on
C14_Witness ==
    /\ last[1] = "buttonDPin"
    /\ last[2] \in PressEvents
    /\ function = fnTestPattern
    /\ currentSettings.testPatternEnable = 1
    /\ txCount = 1
    /\ wire[3] \div 64 = 1

----------------------------------------------------------------------------
(* Channel frequencies *)

\* the channel label is a band letter and a two-digit channel number
LabelShown ==
    /\ lcd[1] \in {67, 83}
    /\ lcd[2] \in 48..57
    /\ lcd[3] \in 48..57
    /\ 10 * (lcd[2] - 48) + (lcd[3] - 48) >= 1

\* the channel label is "---"
NoLabelShown == lcd[1] = 45 /\ lcd[2] = 45 /\ lcd[3] = 45

\* channel frequencies between the labeled bands (69.25 .. 97.25 MHz)
UnlabeledChannels == {6925, 7625, 8325, 9025, 9725}

\* C15 as stated: every frequencyValue reachable from the default by channel
\* steps is given band tag 'C' or 'S' and a channel number, never the
\* unlabeled '-' / "--" case.
C15_AlwaysLabeled == pc = "loop" => LabelShown

\* C15 as amended: every reachable frequencyValue is given band tag 'C' or
\* 'S' and a channel number, except the five reachable values 6925, 7625,
\* 8325, 9025 and 9725, which are shown unlabeled.
C15_LabeledOutsideGap ==
    pc = "loop" =>
    IF currentSettings.frequencyTimes100 \in UnlabeledChannels
    THEN NoLabelShown
    ELSE LabelShown

\* a channel step has reached 97.25 MHz, which has no label
C15_Witness ==
    /\ last[1] \in UDPins
    /\ function = fnChannel
    /\ currentSettings.frequencyTimes100 = 9725
    /\ NoLabelShown

\* the step being taken is an Up / a Down press in EditingChannel
UpChannelStep == UDPressStep /\ function = fnChannel /\ last'[1] = "buttonUPin"
DownChannelStep == UDPressStep /\ function = fnChannel /\ last'[1] = "buttonDPin"

WrapBoundaries == {4125, 102325}

\* C16: for every reachable frequencyValue other than the wrap boundaries
\* 4125 and 102325, stepping forward one channel and then backward one
\* channel returns the original frequencyValue, also at the step-size
\* boundaries 9725, 10525, 29425 and 30325.
C16_ForwardBackwardRoundTrip ==
    /\ [][ ( /\ UpChannelStep
             /\ currentSettings.frequencyTimes100 \notin WrapBoundaries ) =>
               /\ currentSettings'.frequencyTimes100 =
                      incrementFrequency(currentSettings.frequencyTimes100)
               /\ decrementFrequency(currentSettings'.frequencyTimes100) =
                      currentSettings.frequencyTimes100 ]_vars
    /\ [](currentSettings.frequencyTimes100 \notin WrapBoundaries =>
              decrementFrequency(incrementFrequency(
                  currentSettings.frequencyTimes100)) =
                      currentSettings.frequencyTimes100)

\* an Up press has crossed the 900 step from 29425 to 30325
C16_Witness ==
    /\ last[1] = "buttonUPin"
    /\ function = fnChannel
    /\ currentSettings.frequencyTimes100 = 30325
    /\ decrementFrequency(30325) = 29425

\* C17 as stated: stepping forward then backward from 102325 does not return
\* to 102325, and stepping backward then forward from 4125 does not return to
\* 4125.
C17_WrapNotRoundTrip ==
    [][ /\ (UpChannelStep /\ currentSettings.frequencyTimes100 = 102325) =>
               decrementFrequency(currentSettings'.frequencyTimes100) # 102325
        /\ (DownChannelStep /\ currentSettings.frequencyTimes100 = 4125) =>
               incrementFrequency(currentSettings'.frequencyTimes100) # 4125
      ]_vars

\* C17 as amended: the wrap boundaries round-trip as well: forward then
\* backward from 102325 returns to 102325 (through 4125), and backward then
\* forward from 4125 returns to 4125 (through 102325).
C17_WrapRoundTrips ==
    [][ /\ (UpChannelStep /\ currentSettings.frequencyTimes100 = 102325) =>
               decrementFrequency(currentSettings'.frequencyTimes100) = 102325
        /\ (DownChannelStep /\ currentSettings.frequencyTimes100 = 4125) =>
               incrementFrequency(currentSettings'.frequencyTimes100) = 4125
      ]_vars

\* an Up press has wrapped to 4125, from where a Down press wraps back
C17_Witness ==
    /\ last[1] = "buttonUPin"
    /\ function = fnChannel
    /\ currentSettings.frequencyTimes100 = 4125
    /\ decrementFrequency(currentSettings.frequencyTimes100) = 102325

\* C18: a forward step at 102325 yields 4125 and a backward step at 4125
\* yields 102325, so frequencyValue stays within [4125, 102325] in every
\* reachable state.
C18_WrapKeepsRange ==
    /\ [][ /\ (UpChannelStep /\ currentSettings.frequencyTimes100 = 102325) =>
                  currentSettings'.frequencyTimes100 = 4125
           /\ (DownChannelStep /\ currentSettings.frequencyTimes100 = 4125) =>
                  currentSettings'.frequencyTimes100 = 102325 ]_vars
    /\ [](/\ currentSettings.frequencyTimes100 >= 4125
          /\ currentSettings.frequencyTimes100 <= 102325)

\* a Down press at the bottom of the range has wrapped to the top
C18_Witness ==
    /\ last[1] = "buttonDPin"
    /\ function = fnChannel
    /\ currentSettings.frequencyTimes100 = 102325
    /\ frequencyDivisor = 0
    /\ txCount = 1

\* an Up press in EditingChannel has just wrapped forward to 4125
WrappedTo4125 ==
    /\ pc = "loop"
    /\ last[1] = "buttonUPin"
    /\ last[2] \in PressEvents
    /\ function = fnChannel
    /\ currentSettings.frequencyTimes100 = 4125

\* C19 as stated: for frequencyValue 4125, reached by wrapping forward from
\* 102325, the derived information is band tag 'C', channel number 1 and
\* divisor exponent 4.
C19_Exponent4At4125 ==
    WrappedTo4125 =>
        /\ lcd[1] = 67 /\ lcd[2] = 48 /\ lcd[3] = 49
        /\ frequencyDivisor = 4

\* C19 as amended: for frequencyValue 4125, reached by wrapping forward from
\* 102325, the derived information is band tag 'C', channel number 1 and
\* divisor exponent 3 (divisor 8).
C19_Exponent3At4125 ==
    WrappedTo4125 =>
        /\ lcd[1] = 67 /\ lcd[2] = 48 /\ lcd[3] = 49
        /\ frequencyDivisor = 3
        /\ lcd[13] = 56
        /\ wire[4] % 4 = 3

\* 41.25 MHz is shown as C01 with divisor 8 after the forward wrap
C19_Witness ==
    /\ WrappedTo4125
    /\ lcd[1] = 67
    /\ lcd[3] = 49
    /\ lcd[13] = 56
    /\ frequencyDivisor = 3

\* C20: for every frequencyValue reachable by stepping from the default,
\* floor(2^divisorExponent * frequencyValue / 25) with the table-derived
\* divisor exponent lies within [0, 16383]; the uint16_t frequencyBits that
\* writeConfig computes from frequencyDivisor fits 14 bits without wrapping
\* and is that value whenever frequencyDivisor is the table's exponent.
C20_FrequencyBitsFit14 ==
    LET f == currentSettings.frequencyTimes100
        rfb == RegisterFrequencyBits(BandExponent(f), f)
        used == RegisterFrequencyBits(frequencyDivisor, f)
    IN  /\ rfb >= 0
        /\ rfb <= 16383
        /\ used <= 16383
        /\ frequencyBits(frequencyDivisor, f) = used
        /\ frequencyDivisor = BandExponent(f) =>
               frequencyBits(frequencyDivisor, f) = rfb

\* the top of the range has been reached, where the frequency bits are largest
C20_Witness ==
    /\ last[1] \in UDPins
    /\ function = fnChannel
    /\ currentSettings.frequencyTimes100 = 102325
    /\ frequencyDivisor = BandExponent(102325)
    /\ frequencyBits(frequencyDivisor, 102325) = 4093
    /\ 64 * (wire[3] % 64) + (wire[4] \div 4) = 4093

----------------------------------------------------------------------------
(* Persistence in Idle *)

\* the persisted block is valid and decodes to exactly the live settings
SettingsPersisted ==
    /\ BlockValid(eeprom)
    /\ StoredSettings(eeprom) = currentSettings

\* the step being taken starts and ends in loop() with UIMode Idle, and is a
\* step of the firmware, not a change of an EEPROM cell behind its back
IdleFirmwareStep ==
    /\ pc = "loop" /\ pc' = "loop"
    /\ function = fnIdle /\ function' = fnIdle
    /\ last' # <<"eeprom", "fault">>

\* C21: once a save has happened since power-on, in every state where UIMode
\* is Idle the persisted block is valid and decodes to exactly the live
\* settings: every step that enters Idle from an editing mode leaves the
\* block so, and every firmware step taken in Idle keeps the block and the
\* live settings as they are; a power cycle taken from such an Idle state
\* keeps the block, and the startup that loads it ends with the same live
\* settings.  Idle states holding other settings than the defaults carry
\* the block of those settings whenever no EEPROM cell has failed.
C21_IdleIsPersisted ==
    /\ [][ /\ (pc = "loop" /\ pc' = "loop" /\ function # fnIdle
                  /\ function' = fnIdle) => SettingsPersisted'
           /\ (IdleFirmwareStep /\ SettingsPersisted) =>
                  /\ SettingsPersisted'
                  /\ currentSettings' = currentSettings
                  /\ eeprom' = eeprom
           /\ (pc = "loop" /\ pc' = "setup" /\ function = fnIdle
                  /\ SettingsPersisted) =>
                  /\ BlockValid(eeprom')
                  /\ StoredSettings(eeprom') = currentSettings
           /\ (pc = "setup" /\ last' = <<"setup", "load">>
                  /\ BlockValid(eeprom)) =>
                  /\ currentSettings' = StoredSettings(eeprom)
                  /\ function' = fnIdle
                  /\ SettingsPersisted' ]_vars
    /\ []( ( /\ pc = "loop"
             /\ function = fnIdle
             /\ faults = 0
             /\ currentSettings # DefaultSettings ) => SettingsPersisted )

\* edited settings were saved on the way to Idle, and an Up/Down press has
\* since been handled in Idle with the block still holding them
C21_Witness ==
    /\ pc = "loop"
    /\ function = fnIdle
    /\ last[1] \in UDPins
    /\ last[2] \in PressEvents
    /\ currentSettings \notin EarlierSaved \cup {DefaultSettings}
    /\ saved = currentSettings
    /\ SettingsPersisted

----------------------------------------------------------------------------
(* Register packing *)

\* the frequency bits a frame carries: six in FM, six in FL
FrameFrequencyBits(frame) == 64 * (frame[3] % 64) + (frame[4] \div 4)

\* C22: the register packing is lossless in every reachable state: the
\* register frequency bits, for the exponent in use and for the table's
\* exponent, are below 4096, so the 6+6 bits carried in FM and FL are the
\* whole value; the divisor exponent is in [0,3], never 4, so the two
\* divisor bits of FL carry it fully, C1 is 0x80, C0 is standard<<3 and the
\* displayed divisor is one of the single digits 1, 2, 4, 8.
C22_PackingLossless ==
    LET f == currentSettings.frequencyTimes100
        used == RegisterFrequencyBits(frequencyDivisor, f)
    IN  /\ used < 4096
        /\ RegisterFrequencyBits(BandExponent(f), f) < 4096
        /\ frequencyBits(frequencyDivisor, f) = used
        /\ frequencyDivisor \in 0..3
        /\ BandExponent(f) \in 0..3
        /\ pc = "loop" =>
              /\ Len(wire) = 4
              /\ FrameFrequencyBits(wire) = used
              /\ wire[4] % 4 = frequencyDivisor
              /\ wire[1] = 128
              /\ wire[2] = 8 * currentSettings.standard
              /\ lcd[13] \in {49, 50, 52, 56}
              /\ lcd[13] = 48 + Pow2(frequencyDivisor)

\* a channel step has written 105.25 MHz with exponent 3: all twelve
\* frequency bits and both divisor bits of the frame are in use
C22_Witness ==
    /\ pc = "loop"
    /\ last[1] \in UDPins
    /\ function = fnChannel
    /\ txCount = 1
    /\ currentSettings.frequencyTimes100 = 10525
    /\ frequencyDivisor = 3
    /\ FrameFrequencyBits(wire) = 3368
    /\ wire[4] % 4 = 3
    /\ wire[1] = 128
    /\ lcd[13] = 56

====
